---- MODULE Spec2Model ----
(***************************************************************************)
(* The interactive terminal session bridge of ul-clab-studio:              *)
(* wss.on('connection') in server/containerlab_server_backend.js           *)
(* (lines 1189-1350).  One WebSocket connection, the three variables its   *)
(* closure owns (sshClient, sshStream, dockerProcess), every pty process,  *)
(* SSH client and shell stream its handlers create, and the callbacks      *)
(* those objects fire.                                                     *)
(***************************************************************************)
EXTENDS Integers, Sequences, FiniteSets

\* ------------------------------------------------------------------ bounds
\* Number of client messages handled on the connection.
MaxMsgs == 2
\* Number of driver callbacks (pty, SSH client, timer, shell stream) that run.
MaxEvents == 3

\* --------------------------------------------------------------- constants
\* JavaScript null, the initial value of the three closure variables.
Null == 0
\* JavaScript undefined: a field the handshake object does not have.
Undefined == "undefined"
\* U+FFFD, which Buffer.toString() puts in place of a malformed sequence.
ReplacementChar == 65533
\* data.cols || 80 and data.rows || 24.
DefaultCols == 80
DefaultRows == 24

\* ----------------------------------------------------------- text encoding
\* Buffer.prototype.toString(), i.e. UTF-8 decoding, of a byte sequence, to
\* the sequence of code points of the resulting string.  One- and two-byte
\* forms are decoded; any other byte is malformed and becomes U+FFFD.  (The
\* bytes used below are < 0xE0 or 0xFF, so longer forms do not occur.)
RECURSIVE BufferToString(_)
BufferToString(b) ==
    IF b = <<>> THEN <<>>
    ELSE IF b[1] < 128 THEN <<b[1]>> \o BufferToString(Tail(b))
    ELSE IF /\ b[1] >= 194 /\ b[1] <= 223 /\ Len(b) >= 2
            /\ b[2] >= 128 /\ b[2] <= 191
         THEN <<(b[1] - 192) * 64 + (b[2] - 128)>> \o BufferToString(Tail(Tail(b)))
    ELSE <<ReplacementChar>> \o BufferToString(Tail(b))

\* The bytes a string stands for on the wire (UTF-8 encoding of its code
\* points), used to compare what was written with what was sent.
RECURSIVE Utf8Bytes(_)
Utf8Bytes(s) ==
    IF s = <<>> THEN <<>>
    ELSE IF s[1] < 128 THEN <<s[1]>> \o Utf8Bytes(Tail(s))
    ELSE IF s[1] < 2048
         THEN <<192 + (s[1] \div 64), 128 + (s[1] % 64)>> \o Utf8Bytes(Tail(s))
    ELSE <<224 + (s[1] \div 4096), 128 + ((s[1] \div 64) % 64), 128 + (s[1] % 64)>>
         \o Utf8Bytes(Tail(s))

\* ---------------------------------------------------------------- messages
\* The handshake objects a client sends.  cols/rows 0 stands for a falsy
\* value (absent or 0), which `||` replaces by the default.
HandshakeTable == <<
    [nodeKind |-> "linux",    nodeName |-> "r1",      nodeIp |-> Undefined,  cols |-> 120, rows |-> 40],
    [nodeKind |-> "sonic-vm", nodeName |-> "vm1",     nodeIp |-> Undefined,  cols |-> 0,   rows |-> 0],
    [nodeKind |-> "ceos",     nodeName |-> "sw1",     nodeIp |-> "10.0.0.5", cols |-> 0,   rows |-> 0],
    [nodeKind |-> "ceos",     nodeName |-> "sw1",     nodeIp |-> Undefined,  cols |-> 0,   rows |-> 0],
    [nodeKind |-> Undefined,  nodeName |-> Undefined, nodeIp |-> Undefined,  cols |-> 0,   rows |-> 0],
    [nodeKind |-> "linux",    nodeName |-> "r1",      nodeIp |-> Undefined,  cols |-> 0,   rows |-> 0],
    [nodeKind |-> "sonic-vm", nodeName |-> "vm1",     nodeIp |-> Undefined,  cols |-> 100, rows |-> 30],
    [nodeKind |-> "ceos",     nodeName |-> "sw1",     nodeIp |-> "10.0.0.5", cols |-> 132, rows |-> 43] >>

\* The JSON text of handshake i, as bytes: '{' i '}' (an ASCII-only stand-in
\* for the text of the object), and the JSON text "null" as the byte 'n'.
JsonText(i) == <<123, i, 125>>
JsonNull == <<110>>

\* Payloads that are not JSON: "e-acute" in UTF-8, and the lone byte 0xFF,
\* which is not valid UTF-8.  (The JSON texts are the ASCII payloads.)
RawPayloads == {<<195, 169>>, <<255>>}

Messages == {JsonText(i) : i \in 1..5} \cup {JsonNull} \cup RawPayloads

\* JSON.parse(message) followed by the destructuring of line 1207: the
\* handshake object, or the exception either of them throws.
ParseHandshake(m) ==
    IF /\ Len(m) = 3 /\ m[1] = 123 /\ m[3] = 125 /\ m[2] \in DOMAIN HandshakeTable
    THEN [ok |-> TRUE, error |-> "", data |-> HandshakeTable[m[2]]]
    ELSE IF m = JsonNull
    THEN [ok |-> FALSE, error |-> "Error: Cannot destructure property of null",
          data |-> HandshakeTable[5]]
    ELSE [ok |-> FALSE, error |-> "Error: Unexpected token",
          data |-> HandshakeTable[5]]

\* Chunks a pty process hands to onData (strings: code points) and chunks an
\* SSH shell stream hands to on('data') (Buffers: bytes).  The stream chunks
\* include the two halves of a two-byte character split across chunks.
PtyChunks == {<<65>>, <<233>>}
StreamChunks == {<<65>>, <<195>>, <<169>>}

\* The password of the fixed administrative identity ('admin', line 1276).
AdminPassword == "admin"

\* The prompt lists of a keyboard-interactive challenge: one prompt, two.
PromptLists == {<<"Password: ">>, <<"Password: ", "Verification code: ">>}
\* part_000: the servers a request names, the tokens a lab API hands out,
\* and the absent token (undefined, or an empty string: both are falsy).
Servers == {"10.0.0.1", "10.0.0.2"}
Tokens == {"t1", "t2"}
NoToken == ""
\* What axios.post(.../login) resolves to or rejects with: a response with a
\* token, a response without one, a rejection.
LoginReplies ==
    {[ok |-> TRUE, token |-> t] : t \in Tokens \cup {NoToken}} \cup {[ok |-> FALSE, token |-> NoToken]}
\* The outcomes of axios.get(.../labs/:labName): 200 resolves, the others
\* reject with that response status (0: no response at all).
InspectStatuses == {200, 401, 404, 0}
\* The requests the API server handles in one run.
MaxRequests == 2

\* The authMethods argument of 'authenticationRequired': absent, empty, one
\* method.
MethodLists == {Undefined, <<>>, <<"publickey">>}

\* ------------------------------------------------------------------- state
VARIABLES
    wsState,        \* "open", "closing" (close started, 'close' not yet emitted), "closed"
    wsCloseCalls,   \* number of ws.close() calls made by the handlers
    wsErrored,      \* the ws 'error' event has been emitted
    sshClient,      \* closure variable: Null or an index into clients
    sshStream,      \* closure variable: Null or an index into streams
    dockerProcess,  \* closure variable: Null or an index into ptys
    clients,        \* every SSH Client constructed on the connection
    streams,        \* every shell stream handed to the shell callback
    ptys,           \* every pty process spawned on the connection
    writes,         \* calls of a driver's write(), in order
    toClient,       \* calls of ws.send(), in order
    nMsgs,          \* client messages handled so far
    nEvents,        \* driver callbacks run so far
    crashed,        \* an exception escaped an event callback
    parked,         \* the closure of the other connection (whose callbacks are not running)
    tokens,         \* part_000 line 20: the token cached for each server
    reqs,           \* part_000: the requests of the login and lab-inspect endpoints
    cy              \* part_002: the elements of the Cytoscape canvas

vars == <<wsState, wsCloseCalls, wsErrored, sshClient, sshStream, dockerProcess,
          clients, streams, ptys, writes, toClient, nMsgs, nEvents, crashed, parked,
          tokens, reqs, cy>>

\* The state of the terminal bridge (containerlab_server_backend.js).
bridgeVars == <<wsState, wsCloseCalls, wsErrored, sshClient, sshStream, dockerProcess,
                clients, streams, ptys, writes, toClient, nMsgs, nEvents, crashed, parked>>

\* The state of the API server (part_000).
apiVars == <<tokens, reqs>>

\* Lines 1189-1193: what the callback of one connection closes over: its ws
\* and its three variables, with the drivers and the traffic they refer to.
Session ==
    [wsState |-> wsState, wsCloseCalls |-> wsCloseCalls, wsErrored |-> wsErrored,
     sshClient |-> sshClient, sshStream |-> sshStream, dockerProcess |-> dockerProcess,
     clients |-> clients, streams |-> streams, ptys |-> ptys,
     writes |-> writes, toClient |-> toClient]

Init ==
    /\ wsState = "open"
    /\ wsCloseCalls = 0
    /\ wsErrored = FALSE
    /\ sshClient = Null
    /\ sshStream = Null
    /\ dockerProcess = Null
    /\ clients = <<>>
    /\ streams = <<>>
    /\ ptys = <<>>
    /\ writes = <<>>
    /\ toClient = <<>>
    /\ nMsgs = 0
    /\ nEvents = 0
    /\ crashed = FALSE
    /\ parked = Session
    /\ tokens = [s \in Servers |-> NoToken]
    /\ reqs = <<>>
    /\ cy = [nodes |-> {}, edges |-> {}]

\* ----------------------------------------------------------------- helpers
\* ws.send(text): the payload and whether the connection was still open.
WsSend(log, kind, data, diag) ==
    Append(log, [kind |-> kind, data |-> data, diag |-> diag, open |-> wsState = "open"])

\* ws.close(): starts the closing handshake of an open connection.
WsCloseState == IF wsState = "open" THEN "closing" ELSE wsState

\* sshClient.end() on client c.
End(cs, c) == [cs EXCEPT ![c].endCalls = @ + 1]

\* dockerProcess.kill() on process p.
Kill(ps, p) == [ps EXCEPT ![p].killCalls = @ + 1]

\* OrDefault that passes the handshake's value on as it is.
OrGiven(v, d) == v

\* v || d
OrDefault(v, d) == IF v = 0 THEN d ELSE v

\* ------------------------------------------------- ws.on('message') handler
\* SpawnPty with the command of the container branch in both branches.
SpawnPtyDockerOnly(d, command, spawned) ==
    IF spawned
    THEN /\ ptys' = Append(ptys, [command |-> "docker", target |-> d.nodeName,
                                  cols |-> OrDefault(d.cols, DefaultCols),
                                  rows |-> OrDefault(d.rows, DefaultRows),
                                  alive |-> TRUE, errored |-> FALSE, killCalls |-> 0])
         /\ dockerProcess' = Len(ptys) + 1
         /\ UNCHANGED toClient
    ELSE /\ toClient' = WsSend(toClient, "diag", <<>>, "Error: spawn failed")
         /\ UNCHANGED <<ptys, dockerProcess>>

\* Lines 1209-1217 and 1235-1244: pty.spawn of `docker exec -it <nodeName> sh`
\* (linux) or of `ssh ... admin@<nodeName>` (sonic-vm).  spawned = FALSE is
\* pty.spawn throwing, which the catch of line 1327 reports to the client.
SpawnPty(d, command, spawned) ==
    IF spawned
    THEN /\ ptys' = Append(ptys, [command |-> command, target |-> d.nodeName,
                                  cols |-> OrDefault(d.cols, DefaultCols),
                                  rows |-> OrDefault(d.rows, DefaultRows),
                                  alive |-> TRUE, errored |-> FALSE, killCalls |-> 0])
         /\ dockerProcess' = Len(ptys) + 1
         /\ UNCHANGED toClient
    ELSE /\ toClient' = WsSend(toClient, "diag", <<>>, "Error: spawn failed")
         /\ UNCHANGED <<ptys, dockerProcess>>

\* Lines 1262-1298: every other nodeKind.  A new Client is constructed and
\* connect() is called with host nodeIp (whatever it is), and the 10 s timer
\* of the handshake is armed.  sock is the private _sock field of the Client
\* as the timer callback will find it: it belongs to the ssh2 library.
ConnectSsh(d, sock) ==
    /\ clients' = Append(clients, [host |-> d.nodeIp, cols |-> d.cols, rows |-> d.rows,
                                   st |-> "connecting", shells |-> <<>>,
                                   timer |-> "pending", sock |-> sock,
                                   shellPending |-> 0, endCalls |-> 0,
                                   finished |-> <<>>, passwordAuths |-> <<>>])
    /\ sshClient' = Len(clients) + 1

\* Handshake with a catch block that reports nothing.
HandshakeSilentCatch(m, flag) ==
    LET p == ParseHandshake(m) IN
    IF ~p.ok
    THEN UNCHANGED <<toClient, ptys, dockerProcess, clients, sshClient>>
    ELSE IF p.data.nodeKind = "linux"
    THEN SpawnPty(p.data, "docker", flag) /\ UNCHANGED <<clients, sshClient>>
    ELSE IF p.data.nodeKind = "sonic-vm"
    THEN SpawnPty(p.data, "ssh", flag) /\ UNCHANGED <<clients, sshClient>>
    ELSE ConnectSsh(p.data, flag) /\ UNCHANGED <<ptys, dockerProcess, toClient>>

\* Lines 1204-1330: the message is parsed as a handshake and dispatched on
\* nodeKind; an exception is reported to the client and nothing else.
Handshake(m, flag) ==
    LET p == ParseHandshake(m) IN
    IF ~p.ok
    THEN /\ toClient' = WsSend(toClient, "diag", <<>>, p.error)
         /\ UNCHANGED <<ptys, dockerProcess, clients, sshClient>>
    ELSE IF p.data.nodeKind = "linux"
    THEN SpawnPty(p.data, "docker", flag) /\ UNCHANGED <<clients, sshClient>>
    ELSE IF p.data.nodeKind = "sonic-vm"
    THEN SpawnPty(p.data, "ssh", flag) /\ UNCHANGED <<clients, sshClient>>
    ELSE ConnectSsh(p.data, flag) /\ UNCHANGED <<ptys, dockerProcess, toClient>>

\* Lines 1195-1331: ws.on('message').  A message goes to the shell stream if
\* there is one, else to the pty process if there is one, else it is taken
\* as a handshake.  flag is the outcome of what the handshake calls into
\* (pty.spawn succeeding, the Client's _sock being set).
OnMessage(m, flag) ==
    /\ ~crashed
    /\ UNCHANGED <<parked, apiVars, cy>>
    /\ wsState \in {"open", "closing"}
    /\ ~wsErrored
    /\ nMsgs < MaxMsgs
    /\ nMsgs' = nMsgs + 1
    /\ IF sshStream # Null
       THEN /\ writes' = Append(writes, [to |-> <<"stream", sshStream>>,
                                         data |-> BufferToString(m)])
            /\ UNCHANGED <<ptys, dockerProcess, clients, sshClient, toClient>>
       ELSE IF dockerProcess # Null
       THEN /\ writes' = Append(writes, [to |-> <<"pty", dockerProcess>>,
                                         data |-> BufferToString(m)])
            /\ UNCHANGED <<ptys, dockerProcess, clients, sshClient, toClient>>
       ELSE /\ Handshake(m, flag)
            /\ UNCHANGED writes
    /\ UNCHANGED <<wsState, wsCloseCalls, wsErrored, sshStream, streams, nEvents, crashed>>

\* --------------------------------------------------------- pty callbacks
\* Lines 1219-1221 and 1246-1248: dockerProcess.onData.
PtyData(p, chunk) ==
    /\ ~crashed
    /\ UNCHANGED <<parked, apiVars, cy>>
    /\ p \in DOMAIN ptys
    /\ ptys[p].alive
    /\ nEvents < MaxEvents
    /\ nEvents' = nEvents + 1
    /\ toClient' = WsSend(toClient, "data", chunk, "")
    /\ UNCHANGED <<wsState, wsCloseCalls, wsErrored, sshClient, sshStream, dockerProcess,
                   clients, streams, ptys, writes, nMsgs, crashed>>

\* Lines 1223-1227 and 1250-1254: dockerProcess.onExit.
PtyExit(p) ==
    /\ ~crashed
    /\ UNCHANGED <<parked, apiVars, cy>>
    /\ nEvents < MaxEvents
    /\ nEvents' = nEvents + 1
    /\ p \in DOMAIN ptys
    /\ ptys[p].alive
    /\ ptys' = [ptys EXCEPT ![p].alive = FALSE]
    /\ toClient' = WsSend(toClient, "diag", <<>>, "Connection closed")
    /\ wsCloseCalls' = wsCloseCalls + 1
    /\ wsState' = WsCloseState
    /\ UNCHANGED <<wsErrored, sshClient, sshStream, dockerProcess, clients, streams,
                   writes, nMsgs, crashed>>

\* Lines 1229-1233 and 1256-1260: dockerProcess.on('error').
PtyError(p) ==
    /\ ~crashed
    /\ UNCHANGED <<parked, apiVars, cy>>
    /\ nEvents < MaxEvents
    /\ nEvents' = nEvents + 1
    /\ p \in DOMAIN ptys
    /\ ptys[p].alive
    /\ ~ptys[p].errored
    /\ ptys' = [ptys EXCEPT ![p].errored = TRUE]
    /\ toClient' = WsSend(toClient, "diag", <<>>, "Error: pty")
    /\ wsCloseCalls' = wsCloseCalls + 1
    /\ wsState' = WsCloseState
    /\ UNCHANGED <<wsErrored, sshClient, sshStream, dockerProcess, clients, streams,
                   writes, nMsgs, crashed>>

\* ------------------------------------------------- SSH client callbacks
\* Lines 1287-1290: sshClient.on('error').  The diagnostic is sent; the
\* client that failed is left to close by itself (its connection is gone).
SshError(c) ==
    /\ ~crashed
    /\ UNCHANGED <<parked, apiVars, cy>>
    /\ nEvents < MaxEvents
    /\ nEvents' = nEvents + 1
    /\ c \in DOMAIN clients
    /\ clients[c].st # "closed"
    /\ clients' = [clients EXCEPT ![c].st = "closed"]
    /\ toClient' = WsSend(toClient, "diag", <<>>, "Error: ssh")
    /\ UNCHANGED <<wsState, wsCloseCalls, wsErrored, sshClient, sshStream, dockerProcess,
                   streams, ptys, writes, nMsgs, crashed>>

\* Responses that answer the first prompt only.
ResponsesFirstOnly(prompts) == IF prompts = <<>> THEN <<>> ELSE <<AdminPassword>>

\* Line 1276: prompts.map(() => 'admin').
Responses(prompts) == [i \in DOMAIN prompts |-> AdminPassword]

\* KeyboardInteractive that shows the prompts to the client.
KeyboardInteractiveShown(c, prompts) ==
    /\ ~crashed
    /\ UNCHANGED <<parked, apiVars, cy>>
    /\ nEvents < MaxEvents
    /\ nEvents' = nEvents + 1
    /\ c \in DOMAIN clients
    /\ clients[c].st = "connecting"
    /\ clients' = [clients EXCEPT ![c].finished =
                       Append(@, [prompts |-> prompts, responses |-> Responses(prompts)])]
    /\ toClient' = WsSend(toClient, "data", <<Len(prompts)>>, "")
    /\ UNCHANGED <<wsState, wsCloseCalls, wsErrored, sshClient, sshStream, dockerProcess,
                   streams, ptys, writes, nMsgs, crashed>>

\* Lines 1274-1278: sshClient.on('keyboard-interactive') of client c.  The
\* responses are handed to the finish callback of the challenge; finished
\* keeps each challenge of c with the responses given to it.
KeyboardInteractive(c, prompts) ==
    /\ ~crashed
    /\ UNCHANGED <<parked, apiVars, cy>>
    /\ nEvents < MaxEvents
    /\ nEvents' = nEvents + 1
    /\ c \in DOMAIN clients
    /\ clients[c].st = "connecting"
    /\ clients' = [clients EXCEPT ![c].finished =
                       Append(@, [prompts |-> prompts, responses |-> Responses(prompts)])]
    /\ UNCHANGED <<wsState, wsCloseCalls, wsErrored, sshClient, sshStream, dockerProcess,
                   streams, ptys, writes, toClient, nMsgs, crashed>>

\* Lines 1280-1285: sshClient.on('authenticationRequired') of client c.  The
\* password attempt is made on the closure variable sshClient;
\* passwordAuths keeps the attempts made on each client.
AuthenticationRequired(c, authMethods) ==
    /\ ~crashed
    /\ UNCHANGED <<parked, apiVars, cy>>
    /\ nEvents < MaxEvents
    /\ nEvents' = nEvents + 1
    /\ c \in DOMAIN clients
    /\ clients[c].st = "connecting"
    /\ IF authMethods = Undefined \/ authMethods = <<>>
       THEN clients' = [clients EXCEPT ![sshClient].passwordAuths =
                           Append(@, [username |-> "admin", password |-> AdminPassword])]
       ELSE UNCHANGED clients
    /\ UNCHANGED <<wsState, wsCloseCalls, wsErrored, sshClient, sshStream, dockerProcess,
                   streams, ptys, writes, toClient, nMsgs, crashed>>

\* The connection of client c closes (after end(), or closed by the remote
\* side).  No handler is registered for it.
SshClose(c) ==
    /\ ~crashed
    /\ UNCHANGED <<parked, apiVars, cy>>
    /\ nEvents < MaxEvents
    /\ nEvents' = nEvents + 1
    /\ c \in DOMAIN clients
    /\ clients[c].st # "closed"
    /\ clients' = [clients EXCEPT ![c].st = "closed"]
    /\ UNCHANGED <<wsState, wsCloseCalls, wsErrored, sshClient, sshStream, dockerProcess,
                   streams, ptys, writes, toClient, nMsgs, crashed>>

\* Lines 1292-1298: the handshake's 10 s timer.  The callback reads the
\* closure variable sshClient, not the client of its own handshake.
Timeout(c) ==
    /\ ~crashed
    /\ UNCHANGED <<parked, apiVars, cy>>
    /\ nEvents < MaxEvents
    /\ nEvents' = nEvents + 1
    /\ c \in DOMAIN clients
    /\ clients[c].timer = "pending"
    /\ IF sshClient # Null /\ ~clients[sshClient].sock
       THEN /\ toClient' = WsSend(toClient, "diag", <<>>, "Error: Connection timeout")
            /\ clients' = End([clients EXCEPT ![c].timer = "fired"], sshClient)
       ELSE /\ clients' = [clients EXCEPT ![c].timer = "fired"]
            /\ UNCHANGED toClient
    /\ UNCHANGED <<wsState, wsCloseCalls, wsErrored, sshClient, sshStream, dockerProcess,
                   streams, ptys, writes, nMsgs, crashed>>

\* Lines 1300-1303: sshClient.on('ready') of client c.  The timer of c's
\* handshake is cleared and a shell is requested on the closure variable
\* sshClient; shell() on a client that is not connected throws, and nothing
\* catches an exception thrown in an event callback.  The options of the
\* request are { term: 'xterm-256color' } alone: the handshake's cols and
\* rows are not passed, and a window with neither has the library's size,
\* 80 by 24.  shells keeps the window of each request made on a client.
SshReady(c) ==
    /\ ~crashed
    /\ UNCHANGED <<parked, apiVars, cy>>
    /\ nEvents < MaxEvents
    /\ nEvents' = nEvents + 1
    /\ c \in DOMAIN clients
    /\ clients[c].st = "connecting"
    /\ LET cs == [clients EXCEPT ![c].st = "ready",
                                 ![c].timer = IF @ = "pending" THEN "cleared" ELSE @]
       IN IF cs[sshClient].st = "ready"
          THEN /\ clients' = [cs EXCEPT ![sshClient].shellPending = @ + 1,
                                        ![sshClient].shells =
                                            Append(@, [term |-> "xterm-256color",
                                                       cols |-> OrDefault(0, DefaultCols),
                                                       rows |-> OrDefault(0, DefaultRows)])]
               /\ UNCHANGED crashed
          ELSE /\ clients' = cs
               /\ crashed' = TRUE
    /\ UNCHANGED <<wsState, wsCloseCalls, wsErrored, sshClient, sshStream, dockerProcess,
                   streams, ptys, writes, toClient, nMsgs>>

\* Lines 1303-1323: the callback of shell() on client c.  On an error the
\* diagnostic is sent; otherwise the stream becomes sshStream.
ShellCallback(c, granted) ==
    /\ ~crashed
    /\ UNCHANGED <<parked, apiVars, cy>>
    /\ nEvents < MaxEvents
    /\ nEvents' = nEvents + 1
    /\ c \in DOMAIN clients
    /\ clients[c].shellPending > 0
    /\ granted => clients[c].st = "ready"
    /\ clients' = [clients EXCEPT ![c].shellPending = @ - 1]
    /\ IF granted
       THEN /\ streams' = Append(streams, [client |-> c, open |-> TRUE])
            /\ sshStream' = Len(streams) + 1
            /\ UNCHANGED toClient
       ELSE /\ toClient' = WsSend(toClient, "diag", <<>>, "Error: Failed to create shell")
            /\ UNCHANGED <<streams, sshStream>>
    /\ UNCHANGED <<wsState, wsCloseCalls, wsErrored, sshClient, dockerProcess,
                   ptys, writes, nMsgs, crashed>>

\* Lines 1313-1316: stream.on('data').
StreamData(s, chunk) ==
    /\ ~crashed
    /\ UNCHANGED <<parked, apiVars, cy>>
    /\ s \in DOMAIN streams
    /\ streams[s].open
    /\ clients[streams[s].client].st = "ready"
    /\ nEvents < MaxEvents
    /\ nEvents' = nEvents + 1
    /\ toClient' = WsSend(toClient, "data", BufferToString(chunk), "")
    /\ UNCHANGED <<wsState, wsCloseCalls, wsErrored, sshClient, sshStream, dockerProcess,
                   clients, streams, ptys, writes, nMsgs, crashed>>

\* Lines 1318-1322: stream.on('close').
StreamClose(s) ==
    /\ ~crashed
    /\ UNCHANGED <<parked, apiVars, cy>>
    /\ nEvents < MaxEvents
    /\ nEvents' = nEvents + 1
    /\ s \in DOMAIN streams
    /\ streams[s].open
    /\ streams' = [streams EXCEPT ![s].open = FALSE]
    /\ clients' = End(clients, sshClient)
    /\ sshStream' = Null
    /\ UNCHANGED <<wsState, wsCloseCalls, wsErrored, sshClient, dockerProcess,
                   ptys, writes, toClient, nMsgs, crashed>>

\* ------------------------------------------------- ws 'close' and 'error'
\* Lines 1335-1339 and 1344-1348: the body both handlers share.
StopDriver ==
    IF sshClient # Null
    THEN clients' = End(clients, sshClient) /\ UNCHANGED ptys
    ELSE IF dockerProcess # Null
    THEN ptys' = Kill(ptys, dockerProcess) /\ UNCHANGED clients
    ELSE UNCHANGED <<clients, ptys>>

\* WsClose that closes the other connection too.
WsCloseBroadcast ==
    /\ ~crashed
    /\ parked' = [parked EXCEPT !.wsState = "closed"]
    /\ UNCHANGED <<apiVars, cy>>
    /\ wsState # "closed"
    /\ wsState' = "closed"
    /\ StopDriver
    /\ UNCHANGED <<wsCloseCalls, wsErrored, sshClient, sshStream, dockerProcess,
                   streams, writes, toClient, nMsgs, nEvents, crashed>>

\* Lines 1333-1340: ws.on('close'): the client went away, or the closing
\* handshake that ws.close() started has completed.
WsClose ==
    /\ ~crashed
    /\ UNCHANGED <<parked, apiVars, cy>>
    /\ wsState # "closed"
    /\ wsState' = "closed"
    /\ StopDriver
    /\ UNCHANGED <<wsCloseCalls, wsErrored, sshClient, sshStream, dockerProcess,
                   streams, writes, toClient, nMsgs, nEvents, crashed>>

\* Lines 1342-1349: ws.on('error').  The connection is then being closed
\* and its 'close' event follows.
WsError ==
    /\ ~crashed
    /\ UNCHANGED <<parked, apiVars, cy>>
    /\ wsState # "closed"
    /\ ~wsErrored
    /\ wsErrored' = TRUE
    /\ wsState' = WsCloseState
    /\ StopDriver
    /\ UNCHANGED <<wsCloseCalls, sshClient, sshStream, dockerProcess,
                   streams, writes, toClient, nMsgs, nEvents, crashed>>

\* ----------------------------------------------------------- specification
Next ==
    \/ \E m \in Messages, flag \in BOOLEAN : OnMessage(m, flag)
    \/ \E p \in DOMAIN ptys, chunk \in PtyChunks : PtyData(p, chunk)
    \/ \E p \in DOMAIN ptys : PtyExit(p)
    \/ \E p \in DOMAIN ptys : PtyError(p)
    \/ \E c \in DOMAIN clients, prompts \in PromptLists : KeyboardInteractive(c, prompts)
    \/ \E c \in DOMAIN clients, authMethods \in MethodLists :
          AuthenticationRequired(c, authMethods)
    \/ \E c \in DOMAIN clients : SshError(c)
    \/ \E c \in DOMAIN clients : SshClose(c)
    \/ \E c \in DOMAIN clients : Timeout(c)
    \/ \E c \in DOMAIN clients : SshReady(c)
    \/ \E c \in DOMAIN clients, granted \in BOOLEAN : ShellCallback(c, granted)
    \/ \E s \in DOMAIN streams, chunk \in StreamChunks : StreamData(s, chunk)
    \/ \E s \in DOMAIN streams : StreamClose(s)
    \/ WsClose
    \/ WsError

Spec == Init /\ [][Next]_vars

\* The handshake and login phase alone: the messages of the client, the
\* challenges and failures of the SSH logins they start, and the end of the
\* client connection; no login completes and no pty process reports.
LoginNext ==
    \/ \E m \in Messages, flag \in BOOLEAN : OnMessage(m, flag)
    \/ \E c \in DOMAIN clients, prompts \in PromptLists : KeyboardInteractive(c, prompts)
    \/ \E c \in DOMAIN clients : SshError(c)
    \/ WsClose
    \/ WsError

LoginSpec == Init /\ [][LoginNext]_vars

\* The container and vm sessions alone: a handshake of either kind, with and
\* without a geometry, the output, the exit and the error of the pty, and
\* the end of the client connection.
PtyMessages == {JsonText(1), JsonText(2), JsonText(6), JsonText(7)}

PtyNext ==
    \/ \E m \in PtyMessages, flag \in BOOLEAN : OnMessage(m, flag)
    \/ \E p \in DOMAIN ptys, chunk \in PtyChunks : PtyData(p, chunk)
    \/ \E p \in DOMAIN ptys : PtyExit(p)
    \/ \E p \in DOMAIN ptys : PtyError(p)
    \/ WsClose
    \/ WsError

PtySpec == Init /\ [][PtyNext]_vars

\* The device login from the handshake to the shell: a device handshake (or
\* a container handshake, or a message that is none), the challenges and
\* method enumerations of the login, its failure or its success, the shell,
\* and the output of the shell or of the container's pty.
DeviceMessages == {JsonText(1), JsonText(3), JsonText(8), JsonNull}

DeviceNext ==
    \/ \E m \in DeviceMessages : OnMessage(m, TRUE)
    \/ \E c \in DOMAIN clients, prompts \in PromptLists : KeyboardInteractive(c, prompts)
    \/ \E c \in DOMAIN clients, authMethods \in MethodLists :
          AuthenticationRequired(c, authMethods)
    \/ \E c \in DOMAIN clients : SshError(c)
    \/ \E c \in DOMAIN clients : SshReady(c)
    \/ \E c \in DOMAIN clients, granted \in BOOLEAN : ShellCallback(c, granted)
    \/ \E s \in DOMAIN streams : StreamData(s, <<65>>)
    \/ \E p \in DOMAIN ptys : PtyData(p, <<65>>)

DeviceSpec == Init /\ [][DeviceNext]_vars

\* ------------------------------------------------------- two connections
\* Line 1189: the connection callback runs once per connection, so each
\* connection has its own closure.  The variables above are the closure of
\* the connection whose callback the event loop runs next; Switch is the
\* event loop turning to a callback of the other connection.
Switch ==
    /\ ~crashed
    /\ parked # Session
    /\ parked' = Session
    /\ UNCHANGED <<apiVars, cy>>
    /\ wsState' = parked.wsState
    /\ wsCloseCalls' = parked.wsCloseCalls
    /\ wsErrored' = parked.wsErrored
    /\ sshClient' = parked.sshClient
    /\ sshStream' = parked.sshStream
    /\ dockerProcess' = parked.dockerProcess
    /\ clients' = parked.clients
    /\ streams' = parked.streams
    /\ ptys' = parked.ptys
    /\ writes' = parked.writes
    /\ toClient' = parked.toClient
    /\ UNCHANGED <<nMsgs, nEvents, crashed>>

\* The messages of the two-connection runs: the container handshake and a
\* device handshake (either is forwarded as data once a driver is active).
PairMessages == {JsonText(1), JsonText(3)}

PairNext ==
    \/ \E m \in PairMessages : OnMessage(m, TRUE)
    \/ \E p \in DOMAIN ptys : PtyData(p, <<65>>)
    \/ \E p \in DOMAIN ptys : PtyExit(p)
    \/ \E p \in DOMAIN ptys : PtyError(p)
    \/ \E c \in DOMAIN clients : KeyboardInteractive(c, <<"Password: ">>)
    \/ \E c \in DOMAIN clients : AuthenticationRequired(c, <<>>)
    \/ \E c \in DOMAIN clients : SshError(c)
    \/ \E c \in DOMAIN clients : SshClose(c)
    \/ \E c \in DOMAIN clients : Timeout(c)
    \/ \E c \in DOMAIN clients : SshReady(c)
    \/ \E c \in DOMAIN clients, granted \in BOOLEAN : ShellCallback(c, granted)
    \/ \E s \in DOMAIN streams : StreamData(s, <<65>>)
    \/ \E s \in DOMAIN streams : StreamClose(s)
    \/ WsClose
    \/ WsError
    \/ Switch

PairSpec == Init /\ [][PairNext]_vars

\* ------------------------------------------------- API server (part_000)
\* A request of the API server: where its handler stands (pc: the await it
\* is suspended at, or "done"), its local token, the status it answered
\* with, and what it did on the way: the 401 it got from the first
\* inspection, the login it posted to regenerate the token, whether that
\* returned a token, and the inspection it re-issued.
NewRequest(endpoint, serverIp, pc, token, status) ==
    [endpoint |-> endpoint, serverIp |-> serverIp, pc |-> pc, token |-> token,
     status |-> status, unauthorized |-> 0, regens |-> 0, regenOk |-> FALSE, retries |-> 0]

\* Lines 43-57: POST /api/containerlab/login up to its axios.post (the
\* request has its three fields).
LoginRequest(serverIp) ==
    /\ Len(reqs) < MaxRequests
    /\ reqs' = Append(reqs, NewRequest("login", serverIp, "login", NoToken, 0))
    /\ UNCHANGED <<tokens, bridgeVars, cy>>

\* Lines 59-72: the rest of the login endpoint.  A token in the response is
\* stored; a rejection is answered with 500.
LoginReply(r, reply) ==
    /\ r \in DOMAIN reqs
    /\ reqs[r].endpoint = "login"
    /\ reqs[r].pc = "login"
    /\ IF reply.ok
       THEN /\ tokens' = IF reply.token # NoToken
                         THEN [tokens EXCEPT ![reqs[r].serverIp] = reply.token]
                         ELSE tokens
            /\ reqs' = [reqs EXCEPT ![r].pc = "done", ![r].status = 200]
       ELSE /\ reqs' = [reqs EXCEPT ![r].pc = "done", ![r].status = 500]
            /\ UNCHANGED tokens
    /\ UNCHANGED <<bridgeVars, cy>>

\* Lines 77-91: GET .../labs/inspect/:labName up to its first await.  A
\* request without serverIp is answered with 400; with no cached token the
\* handler logs in first, otherwise it inspects with the cached token.
InspectRequest(serverIp) ==
    /\ Len(reqs) < MaxRequests
    /\ reqs' = Append(reqs,
                 IF serverIp = Undefined
                 THEN NewRequest("inspect", serverIp, "done", NoToken, 400)
                 ELSE IF tokens[serverIp] = NoToken
                 THEN NewRequest("inspect", serverIp, "login", NoToken, 0)
                 ELSE NewRequest("inspect", serverIp, "inspect", tokens[serverIp], 0))
    /\ UNCHANGED <<tokens, bridgeVars, cy>>

\* Lines 92-112: the login of a request that found no cached token.
InspectLoginReply(r, reply) ==
    /\ r \in DOMAIN reqs
    /\ reqs[r].endpoint = "inspect"
    /\ reqs[r].pc = "login"
    /\ IF reply.ok /\ reply.token # NoToken
       THEN /\ tokens' = [tokens EXCEPT ![reqs[r].serverIp] = reply.token]
            /\ reqs' = [reqs EXCEPT ![r].pc = "inspect", ![r].token = reply.token]
       ELSE /\ reqs' = [reqs EXCEPT ![r].pc = "done", ![r].status = 401]
            /\ UNCHANGED tokens
    /\ UNCHANGED <<bridgeVars, cy>>

\* Lines 115-138 and 190-207: the outcome of the first inspection.  A 401
\* starts the regeneration of the token.
InspectReply(r, status) ==
    /\ r \in DOMAIN reqs
    /\ reqs[r].pc = "inspect"
    /\ reqs' = IF status = 401
               THEN [reqs EXCEPT ![r].pc = "regen", ![r].unauthorized = @ + 1,
                                 ![r].regens = @ + 1]
               ELSE IF status \in {200, 404}
               THEN [reqs EXCEPT ![r].pc = "done", ![r].status = 200]
               ELSE [reqs EXCEPT ![r].pc = "done", ![r].status = 500]
    /\ UNCHANGED <<tokens, bridgeVars, cy>>

\* RegenReply that stores whatever the login returned.
RegenReplyStoresAny(r, reply) ==
    /\ r \in DOMAIN reqs
    /\ reqs[r].pc = "regen"
    /\ tokens' = [tokens EXCEPT ![reqs[r].serverIp] = reply.token]
    /\ reqs' = IF reply.ok /\ reply.token # NoToken
               THEN [reqs EXCEPT ![r].pc = "retry", ![r].token = reply.token,
                                 ![r].regenOk = TRUE, ![r].retries = @ + 1]
               ELSE [reqs EXCEPT ![r].pc = "done", ![r].status = 401]
    /\ UNCHANGED <<bridgeVars, cy>>

\* Lines 139-155 and 181-188: the outcome of the regenerating login.  With a
\* token the cache is overwritten and the inspection is sent again;
\* otherwise the request is answered with 401.
RegenReply(r, reply) ==
    /\ r \in DOMAIN reqs
    /\ reqs[r].pc = "regen"
    /\ IF reply.ok /\ reply.token # NoToken
       THEN /\ tokens' = [tokens EXCEPT ![reqs[r].serverIp] = reply.token]
            /\ reqs' = [reqs EXCEPT ![r].pc = "retry", ![r].token = reply.token,
                                    ![r].regenOk = TRUE, ![r].retries = @ + 1]
       ELSE /\ reqs' = [reqs EXCEPT ![r].pc = "done", ![r].status = 401]
            /\ UNCHANGED tokens
    /\ UNCHANGED <<bridgeVars, cy>>

\* Lines 156-188: the outcome of the retried inspection.  Anything but 200
\* and 404 is thrown into the catch of the regeneration and answered 401.
RetryReply(r, status) ==
    /\ r \in DOMAIN reqs
    /\ reqs[r].pc = "retry"
    /\ reqs' = IF status \in {200, 404}
               THEN [reqs EXCEPT ![r].pc = "done", ![r].status = 200]
               ELSE [reqs EXCEPT ![r].pc = "done", ![r].status = 401]
    /\ UNCHANGED <<tokens, bridgeVars, cy>>

ApiNext ==
    \/ \E serverIp \in Servers : LoginRequest(serverIp)
    \/ \E r \in DOMAIN reqs, reply \in LoginReplies : LoginReply(r, reply)
    \/ \E serverIp \in Servers \cup {Undefined} : InspectRequest(serverIp)
    \/ \E r \in DOMAIN reqs, reply \in LoginReplies : InspectLoginReply(r, reply)
    \/ \E r \in DOMAIN reqs, status \in InspectStatuses : InspectReply(r, status)
    \/ \E r \in DOMAIN reqs, reply \in LoginReplies : RegenReply(r, reply)
    \/ \E r \in DOMAIN reqs, status \in InspectStatuses : RetryReply(r, status)

ApiSpec == Init /\ [][ApiNext]_vars

\* ------------------------------------------------ canvas (part_002)
\* Lines 4-5.
GHOST_NODE_ID == "__connect_ghost__"
GHOST_EDGE_ID == "__connect_ghost_edge__"

\* The node ids of the React state, and its edges: one edge id, between any
\* two nodes.
NodeIds == {"n1", "n2", "n3"}
ReactEdges == {[id |-> "e1", source |-> a, target |-> b] : a, b \in NodeIds}

\* The nodes and edges a sync is given: ids are unique and every edge joins
\* two of the given nodes.
ReactGraphs ==
    {g \in [nodes : SUBSET NodeIds, edges : {{}} \cup {{e} : e \in ReactEdges}] :
        \A e \in g.edges : e.source \in g.nodes /\ e.target \in g.nodes}

\* cy.remove(nodes): Cytoscape removes a node together with the edges
\* connected to it.
RemoveNodes(c, ns) ==
    [nodes |-> c.nodes \ ns,
     edges |-> {e \in c.edges : e.source \notin ns /\ e.target \notin ns}]

\* Lines 108-164: syncElements(cy, reactNodes, reactEdges), on the ids and
\* endpoints of the elements (positions and labels are left out).  The two
\* id sets are read before anything is removed.
syncElements(c, reactNodes, reactEdges) ==
    LET currentNodeIds == c.nodes
        currentEdgeIds == {e.id : e \in c.edges}
        reactEdgeIds == {e.id : e \in reactEdges}
        c1 == RemoveNodes(c, {n \in c.nodes : n # GHOST_NODE_ID /\ n \notin reactNodes})
        c2 == [c1 EXCEPT !.edges =
                  {e \in c1.edges : e.id = GHOST_EDGE_ID \/ e.id \in reactEdgeIds}]
        c3 == [c2 EXCEPT !.nodes = @ \cup {n \in reactNodes : n \notin currentNodeIds}]
    IN  [c3 EXCEPT !.edges = @ \cup {e \in reactEdges : e.id \notin currentEdgeIds}]

\* Lines 258-263: the effect that syncs the canvas with the React state.
Sync(g) ==
    /\ cy' = syncElements(cy, g.nodes, g.edges)
    /\ UNCHANGED <<bridgeVars, apiVars>>

\* Lines 265-299: the connect-mode effect.  The ghost elements of the last
\* run are removed; with a source node that is on the canvas, the ghost node
\* and the ghost edge from the source to it are added.
ConnectMode(connectSourceNodeId) ==
    /\ LET c1 == RemoveNodes(cy, {GHOST_NODE_ID})
           c2 == [c1 EXCEPT !.edges = {e \in @ : e.id # GHOST_EDGE_ID}]
       IN cy' = IF connectSourceNodeId = Undefined \/ connectSourceNodeId \notin c2.nodes
                THEN c2
                ELSE [nodes |-> c2.nodes \cup {GHOST_NODE_ID},
                      edges |-> c2.edges \cup {[id |-> GHOST_EDGE_ID,
                                                source |-> connectSourceNodeId,
                                                target |-> GHOST_NODE_ID]}]
    /\ UNCHANGED <<bridgeVars, apiVars>>

CanvasNext ==
    \/ \E g \in ReactGraphs : Sync(g)
    \/ \E connectSourceNodeId \in NodeIds \cup {Undefined} : ConnectMode(connectSourceNodeId)

CanvasSpec == Init /\ [][CanvasNext]_vars

\* ------------------------------------------------------------ session view
\* Drivers constructed on the connection so far (pty processes, SSH clients).
DriversStarted == Len(ptys) + Len(clients)

\* Times the session became ACTIVE: a pty process is usable as soon as it is
\* spawned, an SSH login when its shell stream is stored in sshStream.
ActiveEntries == Len(ptys) + Len(streams)

\* The session relays: the client is connected and the handler has a live
\* backend to forward to.
Active ==
    /\ wsState = "open"
    /\ \/ sshStream # Null
       \/ sshStream = Null /\ dockerProcess # Null /\ ptys[dockerProcess].alive

LastSent(log) == log[Len(log)]

\* ------------------------------------------------------------------ claims
\* C1: whatever teardown triggers fire and in whatever order, the stop
\* operation of a driver (kill of a pty process, end of an SSH client) is
\* invoked at most once.
StopInvokedAtMostOnce ==
    /\ \A p \in DOMAIN ptys : ptys[p].killCalls <= 1
    /\ \A c \in DOMAIN clients : clients[c].endCalls <= 1

\* C2: once the client connection has closed, every driver started on it
\* has exited or has had its stop operation invoked.
NoBackendLeaked ==
    wsState = "closed" =>
        /\ \A p \in DOMAIN ptys : ~ptys[p].alive \/ ptys[p].killCalls > 0
        /\ \A c \in DOMAIN clients : clients[c].st = "closed" \/ clients[c].endCalls > 0

\* C3: at most one backend driver is ever constructed on a connection.
AtMostOneDriver == DriversStarted <= 1

\* C4: once a handshake has been accepted (a driver was constructed), every
\* later message is forwarded to a driver's write and not parsed.
LaterMessagesForwarded ==
    [][(DriversStarted > 0 /\ nMsgs' = nMsgs + 1) => Len(writes') = Len(writes) + 1]_vars

\* C5: a payload the client sends while the session is ACTIVE reaches the
\* driver's write as the next write, with the bytes that were sent.
ClientBytesReachDriver ==
    [][\A m \in Messages :
          (Active /\ \E flag \in BOOLEAN : OnMessage(m, flag)) =>
              /\ Len(writes') = Len(writes) + 1
              /\ Utf8Bytes(LastSent(writes').data) = m]_vars

\* C6: a chunk a driver emits while the session is ACTIVE reaches the client
\* as the next payload, with the content that was emitted, for pty processes
\* and for SSH shell streams.
DriverBytesReachClient ==
    [][Active =>
          /\ \A p \in DOMAIN ptys, chunk \in PtyChunks :
                PtyData(p, chunk) =>
                    /\ Len(toClient') = Len(toClient) + 1
                    /\ LastSent(toClient').data = chunk
          /\ \A s \in DOMAIN streams, chunk \in StreamChunks :
                StreamData(s, chunk) =>
                    /\ Len(toClient') = Len(toClient) + 1
                    /\ Utf8Bytes(LastSent(toClient').data) = chunk]_vars

\* C7: a session enters ACTIVE when its driver has started, and at most once
\* in its lifetime.
ActiveAtMostOnce == ActiveEntries <= 1

\* C8: a device handshake without an address constructs no SSH client.
NoDeviceDriverWithoutAddress ==
    \A c \in DOMAIN clients : clients[c].host # Undefined

\* C9: when the 10 s timer of a device login that never got ready has run,
\* the session is CLOSED: the timeout diagnostic was sent, the driver was
\* stopped, the client connection is closed; and it was never ACTIVE.
TimeoutClosesSession ==
    \A c \in DOMAIN clients :
        (clients[c].timer = "fired" /\ DriversStarted = 1) =>
            /\ \E i \in DOMAIN toClient : toClient[i].diag = "Error: Connection timeout"
            /\ clients[c].endCalls > 0
            /\ wsState # "open"
            /\ ActiveEntries = 0

\* C10: when the driver of an ACTIVE session exits (pty process exit, shell
\* stream close), exactly one diagnostic is sent to the client and the
\* client connection is closed.
ExitNoticeThenClose ==
    [][Active =>
          /\ \A p \in DOMAIN ptys :
                (p = dockerProcess /\ PtyExit(p)) =>
                    /\ Len(toClient') = Len(toClient) + 1
                    /\ LastSent(toClient').kind = "diag"
                    /\ wsState' # "open"
          /\ \A s \in DOMAIN streams :
                (s = sshStream /\ StreamClose(s)) =>
                    /\ Len(toClient') = Len(toClient) + 1
                    /\ LastSent(toClient').kind = "diag"
                    /\ wsState' # "open"]_vars

UnknownKindRejected ==
    [][\A m \in Messages :
          (/\ sshStream = Null
           /\ dockerProcess = Null
           /\ ParseHandshake(m).ok
           /\ ParseHandshake(m).data.nodeKind = Undefined
           /\ \E flag \in BOOLEAN : OnMessage(m, flag)) =>
              /\ DriversStarted' = DriversStarted
              /\ Len(toClient') = Len(toClient) + 1
              /\ LastSent(toClient').kind = "diag"]_vars

\* C13 (for a session with a single driver): whichever trigger ends the
\* ACTIVE session, the client connection is then closed or closing, and once
\* it is closed the driver has exited or has been stopped.
TeardownStopsAndCloses ==
    [][(/\ Active
        /\ DriversStarted = 1
        /\ \/ WsClose
           \/ \E p \in DOMAIN ptys : PtyExit(p) \/ PtyError(p)
           \/ \E s \in DOMAIN streams : StreamClose(s)
           \/ \E c \in DOMAIN clients : SshError(c)) =>
          /\ wsState' # "open"
          /\ wsState' = "closed" =>
                /\ \A p \in DOMAIN ptys : ~ptys'[p].alive \/ ptys'[p].killCalls > 0
                /\ \A c \in DOMAIN clients :
                      clients'[c].st = "closed" \/ clients'[c].endCalls > 0]_vars

\* C14: the handlers call ws.close() at most once on a connection.
ServerCloseAtMostOnce == wsCloseCalls <= 1

\* C15: a failure to construct the driver, to connect or authenticate, or to
\* allocate the shell is reported as one diagnostic and closes the session.
StartFailureClosesSession ==
    [][(\/ \E c \in DOMAIN clients : clients[c].st = "connecting" /\ SshError(c)
        \/ \E c \in DOMAIN clients : ShellCallback(c, FALSE)
        \/ \E m \in Messages :
              /\ sshStream = Null
              /\ dockerProcess = Null
              /\ ParseHandshake(m).ok
              /\ ParseHandshake(m).data.nodeKind \in {"linux", "sonic-vm"}
              /\ OnMessage(m, FALSE)) =>
          /\ Len(toClient') = Len(toClient) + 1
          /\ LastSent(toClient').kind = "diag"
          /\ wsState' # "open"]_vars

\* C16: once a driver of the session has exited or has been stopped, no
\* step constructs a driver or makes the session ACTIVE again.
ClosedIsTerminal ==
    [][(\/ \E p \in DOMAIN ptys : ~ptys[p].alive \/ ptys[p].killCalls > 0
        \/ \E c \in DOMAIN clients : clients[c].st = "closed" \/ clients[c].endCalls > 0) =>
          /\ DriversStarted' = DriversStarted
          /\ ActiveEntries' = ActiveEntries]_vars

\* C17 (for a session with a single driver): once the client has
\* disconnected, the driver has been stopped, no shell channel is requested
\* and the session does not become ACTIVE.
DisconnectCancelsLogin ==
    [][(wsState = "closed" /\ DriversStarted = 1) =>
          /\ \A c \in DOMAIN clients : clients[c].endCalls > 0
          /\ \A c \in DOMAIN clients : clients'[c].shellPending <= clients[c].shellPending
          /\ ActiveEntries' = ActiveEntries]_vars

\* C18: every keyboard-interactive challenge is answered with one response
\* per prompt, each the administrative password.
EveryPromptAnswered ==
    \A c \in DOMAIN clients : \A k \in DOMAIN clients[c].finished :
        LET ch == clients[c].finished[k] IN
        /\ Len(ch.responses) = Len(ch.prompts)
        /\ \A i \in DOMAIN ch.responses : ch.responses[i] = AdminPassword

\* A challenge with two prompts has been answered.
TwoPromptsAnswered ==
    \E c \in DOMAIN clients : \E k \in DOMAIN clients[c].finished :
        Len(clients[c].finished[k].prompts) = 2

\* C19: a valid handshake (linux or sonic-vm with a nodeName, any other
\* nodeKind with a nodeIp), arriving while the session has no driver and
\* whose spawn succeeds, starts exactly one driver, of the kind of the
\* handshake: `docker exec` into nodeName, `ssh` to nodeName, or an SSH
\* client connecting to nodeIp.
DriverMatchesKind ==
    [][\A m \in Messages :
          LET d == ParseHandshake(m).data
              isPty == d.nodeKind \in {"linux", "sonic-vm"}
          IN (/\ sshStream = Null
              /\ dockerProcess = Null
              /\ ParseHandshake(m).ok
              /\ d.nodeKind # Undefined
              /\ IF isPty THEN d.nodeName # Undefined ELSE d.nodeIp # Undefined
              /\ \E flag \in BOOLEAN : (isPty => flag) /\ OnMessage(m, flag)) =>
                 /\ DriversStarted' = DriversStarted + 1
                 /\ isPty =>
                       /\ Len(ptys') = Len(ptys) + 1
                       /\ dockerProcess' = Len(ptys')
                       /\ LastSent(ptys').target = d.nodeName
                       /\ LastSent(ptys').command =
                              (IF d.nodeKind = "linux" THEN "docker" ELSE "ssh")
                 /\ ~isPty =>
                       /\ Len(clients') = Len(clients) + 1
                       /\ sshClient' = Len(clients')
                       /\ LastSent(clients').host = d.nodeIp]_vars

\* The sonic-vm handshake has started `ssh` to vm1.
VmLoginStarted ==
    /\ Len(ptys) = 1
    /\ ptys[1].command = "ssh"
    /\ ptys[1].target = "vm1"
    /\ dockerProcess = 1

PasswordFallbackOnlyWithoutMethods ==
    [][\A c \in DOMAIN clients : \A authMethods \in MethodLists :
          AuthenticationRequired(c, authMethods) =>
             /\ \A o \in DOMAIN clients \ {c} :
                   clients'[o].passwordAuths = clients[o].passwordAuths
             /\ clients'[c].passwordAuths =
                   IF authMethods = Undefined \/ authMethods = <<>>
                   THEN Append(clients[c].passwordAuths,
                               [username |-> "admin", password |-> AdminPassword])
                   ELSE clients[c].passwordAuths]_vars

\* C22: a challenge or a method enumeration of a device login is answered
\* without consuming a client message, writing to a driver or sending
\* anything to the client; and as long as the connection has no shell stream
\* and no pty process, everything sent to the client is an error diagnostic.
LoginHiddenFromClient ==
    [][/\ \A c \in DOMAIN clients :
             (\/ \E prompts \in PromptLists : KeyboardInteractive(c, prompts)
              \/ \E authMethods \in MethodLists : AuthenticationRequired(c, authMethods)) =>
                /\ toClient' = toClient
                /\ nMsgs' = nMsgs
                /\ writes' = writes
       /\ ActiveEntries' = 0 =>
             \A i \in DOMAIN toClient' : toClient'[i].kind = "diag"]_vars

\* A device login answered a challenge of two prompts and then failed; the
\* client was sent the one diagnostic and nothing else.
ChallengeAnsweredThenError ==
    /\ ActiveEntries = 0
    /\ \E c \in DOMAIN clients :
          /\ clients[c].st = "closed"
          /\ Len(clients[c].finished) = 1
          /\ Len(clients[c].finished[1].prompts) = 2
    /\ Len(toClient) = 1
    /\ toClient[1].diag = "Error: ssh"

\* C23: a container or vm handshake whose spawn succeeds starts its pty
\* with the cols and rows of the handshake, and with 80 cols and 24 rows
\* where the handshake has none.
PtyGeometryFromHandshake ==
    [][\A m \in PtyMessages :
          LET d == ParseHandshake(m).data IN
          (/\ sshStream = Null
           /\ dockerProcess = Null
           /\ OnMessage(m, TRUE)) =>
              /\ Len(ptys') = Len(ptys) + 1
              /\ LastSent(ptys').target = d.nodeName
              /\ LastSent(ptys').cols = (IF d.cols = 0 THEN 80 ELSE d.cols)
              /\ LastSent(ptys').rows = (IF d.rows = 0 THEN 24 ELSE d.rows)]_vars

\* A container handshake without a geometry started its pty at 80 by 24.
DefaultGeometryUsed ==
    /\ Len(ptys) = 1
    /\ ptys[1].command = "docker"
    /\ ptys[1].cols = 80
    /\ ptys[1].rows = 24
    /\ ptys[1].alive

\* C24: every shell channel a device driver requests has the cols and rows
\* of the driver's handshake, and 80 by 24 where the handshake has none.
ShellGeometryFromHandshake ==
    \A c \in DOMAIN clients : \A k \in DOMAIN clients[c].shells :
        /\ clients[c].shells[k].cols = (IF clients[c].cols = 0 THEN 80 ELSE clients[c].cols)
        /\ clients[c].shells[k].rows = (IF clients[c].rows = 0 THEN 24 ELSE clients[c].rows)

\* C25: once a diagnostic of a started session has been sent (the exit
\* notice, a driver error, the timeout, the shell failure), the connection
\* is closing or closed and nothing more is sent on it: neither a second
\* diagnostic nor driver output.
DiagnosticIsLastPayload ==
    [][(/\ Len(toClient) > 0
        /\ LastSent(toClient).diag \in {"Connection closed", "Error: pty", "Error: ssh",
                                        "Error: Connection timeout",
                                        "Error: Failed to create shell"}) =>
          /\ wsState # "open"
          /\ toClient' = toClient]_vars

\* C26: nothing is sent on a client connection that has closed.
NoSendAfterClose ==
    [][wsState = "closed" => toClient' = toClient]_vars

\* C27: the callbacks of a device login act on the SSH client of their own
\* handshake: ready requests the shell on the client that became ready, the
\* timer ends no other client than its own, and the close of a stream ends
\* the client of that stream.
CallbacksActOnOwnClient ==
    [][/\ \A c \in DOMAIN clients :
             SshReady(c) =>
                /\ ~crashed'
                /\ clients'[c].shellPending = clients[c].shellPending + 1
                /\ \A o \in DOMAIN clients \ {c} :
                      clients'[o].shellPending = clients[o].shellPending
       /\ \A c \in DOMAIN clients :
             Timeout(c) =>
                \A o \in DOMAIN clients \ {c} : clients'[o].endCalls = clients[o].endCalls
       /\ \A s \in DOMAIN streams :
             StreamClose(s) =>
                /\ clients'[streams[s].client].endCalls =
                      clients[streams[s].client].endCalls + 1
                /\ \A o \in DOMAIN clients \ {streams[s].client} :
                      clients'[o].endCalls = clients[o].endCalls]_vars

\* C28: a client message is written to a driver only while that driver is
\* running: its pty process alive and not killed, or its stream open and its
\* client neither closed nor ended.
NoWriteToDeadDriver ==
    [][\A m \in Messages : \A flag \in BOOLEAN :
          (OnMessage(m, flag) /\ writes' # writes) =>
             LET to == LastSent(writes').to IN
             IF to[1] = "pty"
             THEN ptys[to[2]].alive /\ ptys[to[2]].killCalls = 0
             ELSE /\ streams[to[2]].open
                  /\ clients[streams[to[2]].client].st = "ready"
                  /\ clients[streams[to[2]].client].endCalls = 0]_vars

\* C29, as the code has it: a lab-inspect request regenerates the token
\* once for the 401 of its inspection and not otherwise, and re-issues the
\* inspection once if the regeneration returned a token and not at all if it
\* did not; the cached token of a server changes only in a step that handles
\* a successful login for that server, and only to the non-empty token that
\* login returned; a login that fails or returns no token changes no cached
\* token.
InspectRefreshesOnce ==
    [][/\ \A r \in DOMAIN reqs' :
             /\ reqs'[r].unauthorized <= 1
             /\ reqs'[r].regens = reqs'[r].unauthorized
             /\ reqs'[r].retries = (IF reqs'[r].regenOk THEN 1 ELSE 0)
             /\ reqs'[r].regenOk => reqs'[r].regens = 1
       /\ \A s \in Servers :
             tokens'[s] # tokens[s] =>
                /\ tokens'[s] # NoToken
                /\ \E r \in DOMAIN reqs :
                      /\ reqs[r].serverIp = s
                      /\ \/ LoginReply(r, [ok |-> TRUE, token |-> tokens'[s]])
                         \/ InspectLoginReply(r, [ok |-> TRUE, token |-> tokens'[s]])
                         \/ RegenReply(r, [ok |-> TRUE, token |-> tokens'[s]])
       /\ \A r \in DOMAIN reqs : \A reply \in LoginReplies :
             (/\ ~reply.ok \/ reply.token = NoToken
              /\ \/ LoginReply(r, reply)
                 \/ InspectLoginReply(r, reply)
                 \/ RegenReply(r, reply)) =>
                tokens' = tokens]_vars

\* C29, as stated: every lab-inspect request that got a 401 from its
\* inspection has, when it is answered, regenerated the token once and
\* re-issued the inspection once.
RetryAfterEveryUnauthorized ==
    \A r \in DOMAIN reqs :
        (reqs[r].pc = "done" /\ reqs[r].unauthorized = 1) =>
            /\ reqs[r].regens = 1
            /\ reqs[r].retries = 1

\* A request got a 401 from its inspection, regenerated the token as t2,
\* retried once and was answered 200; t2 is the cached token of its server.
TokenRefreshedAndRetried ==
    \E r \in DOMAIN reqs :
        /\ reqs[r].endpoint = "inspect"
        /\ reqs[r].pc = "done"
        /\ reqs[r].status = 200
        /\ reqs[r].unauthorized = 1
        /\ reqs[r].retries = 1
        /\ reqs[r].token = "t2"
        /\ tokens[reqs[r].serverIp] = "t2"

\* C30: after a sync the ids of the non-ghost nodes of the canvas are the ids
\* of the given nodes, the ids of its non-ghost edges are the ids of the
\* given edges, and a ghost node or ghost edge that was on the canvas is
\* still there.
SyncMatchesGiven ==
    [][\A g \in ReactGraphs :
          Sync(g) =>
             /\ cy'.nodes \ {GHOST_NODE_ID} = g.nodes
             /\ {e.id : e \in cy'.edges} \ {GHOST_EDGE_ID} = {e.id : e \in g.edges}
             /\ GHOST_NODE_ID \in cy.nodes => GHOST_NODE_ID \in cy'.nodes
             /\ \A e \in cy.edges : e.id = GHOST_EDGE_ID => e \in cy'.edges]_vars

====
